---- MODULE Spec2Model ----
(***************************************************************************)
(* Model of udev.c: the mode selector (main), the hotplug dispatcher       *)
(* (udev_hotplug), the termination-signal handler (sig_handler) and the    *)
(* query command line (udev_user).                                         *)
(*                                                                         *)
(* C strings are sequences of one-character strings; a char pointer is a   *)
(* sequence of length 0 (NULL) or 1 (pointer to the string it holds).      *)
(* Every collaborator call is recorded in trace as <<name, return value>>. *)
(***************************************************************************)
EXTENDS Integers, Sequences, FiniteSets, TLC

\* ------------------------------------------------------------------ bounds
\* most argv entries after the program name in a generated command line
MaxArgs == 3
\* size of the path/result buffers (udev.h NAME_SIZE), shrunk so that the
\* longest device name of the model does not fit behind the device root
NAME_SIZE == 10
\* most entries of sig_handler into the process in one run
MaxCaught == 2
\* hotplug invocations the event source makes for one device
MaxEvents == 2

\* --------------------------------------------------------------- constants
EINVAL == 22
EACCES == 13
SIGHUP == 1
SIGINT == 2
SIGKILL == 9
SIGTERM == 15

\* ----------------------------------------------------------------- strings
NULL == <<>>
Ptr(s) == <<s>>
Deref(p) == p[1]

s_empty == <<>>
s_add == <<"a","d","d">>
s_remove == <<"r","e","m","o","v","e">>
s_change == <<"c","h","a","n","g","e">>
s_ADD == <<"A","D","D">>
s_class == <<"c","l","a","s","s">>
s_block == <<"b","l","o","c","k">>
s_net == <<"n","e","t">>
s_scsi_host == <<"s","c","s","i","_","h","o","s","t">>
s_scsi_device == <<"s","c","s","i","_","d","e","v","i","c","e">>
s_usb_host == <<"u","s","b","_","h","o","s","t">>
s_pci_bus == <<"p","c","i","_","b","u","s">>
s_tty == <<"t","t","y">>
s_nets == <<"n","e","t","s">>
s_class_tty == <<"/","c","l","a","s","s","/","t","t","y">>
s_slash_block == <<"/","b","l","o","c","k">>
s_devices_pci == <<"/","d","e","v","i","c","e","s","/","p","c","i">>
s_name == <<"n","a","m","e">>
s_symlink == <<"s","y","m","l","i","n","k">>
s_owner == <<"o","w","n","e","r">>
s_group == <<"g","r","o","u","p">>
s_bogus == <<"b","o","g","u","s">>
s_udev == <<"u","d","e","v">>
s_dev_dir == <<"/","d","e","v","/">>
s_sda == <<"s","d","a">>
s_disk == <<"d","i","s","k">>
s_root == <<"r","o","o","t">>
s_ttyUSB0 == <<"t","t","y","U","S","B","0">>
s_uucp == <<"u","u","c","p">>
o_d == <<"-","d">>
o_p == <<"-","p">>
o_q == <<"-","q">>
o_r == <<"-","r">>
o_V == <<"-","V">>
o_h == <<"-","h">>
o_x == <<"-","x">>
o_rd == <<"-","r","d">>
o_qname == <<"-","q","n","a","m","e">>
o_pblock == <<"-","p","/","b","l","o","c","k">>
o_dashdash == <<"-","-">>

\* strstr(haystack, needle) != NULL
strstr(haystack, needle) ==
    \E i \in 1..(Len(haystack) - Len(needle) + 1) :
        SubSeq(haystack, i, i + Len(needle) - 1) = needle

\* strcmp taken for a comparison that ignores case
ToLower(c) ==
    IF c = "A" THEN "a" ELSE IF c = "D" THEN "d" ELSE c
strcasecmp(a, b) ==
    IF Len(a) = Len(b) /\ \A i \in 1..Len(a) : ToLower(a[i]) = ToLower(b[i])
    THEN 0 ELSE 1

\* strcmp(a, b): 0 exactly when the two strings have the same characters
strcmp(a, b) ==
    IF Len(a) = Len(b) /\ \A i \in 1..Len(a) : a[i] = b[i] THEN 0 ELSE 1

\* strfieldcpy(to, from): bounded copy into a NAME_SIZE buffer, always terminated
strfieldcpy(from) ==
    IF Len(from) > NAME_SIZE - 1 THEN SubSeq(from, 1, NAME_SIZE - 1) ELSE from

\* ------------------------------------------------------------------ inputs
\* subsystem arguments handed over by the hotplug event source
Subsystems ==
    {s_net, s_scsi_host, s_scsi_device, s_usb_host, s_pci_bus,
     s_block, s_tty, s_nets, s_empty}

\* values of getenv("DEVPATH")
DevpathEnv ==
    {NULL, Ptr(s_class_tty), Ptr(s_slash_block), Ptr(s_devices_pci), Ptr(s_empty)}

\* values of getenv("ACTION")
ActionEnv ==
    {NULL, Ptr(s_add), Ptr(s_remove), Ptr(s_change), Ptr(s_ADD), Ptr(s_empty)}

Envs == [E_DEVPATH : DevpathEnv, E_ACTION : ActionEnv]
EmptyEnv == [E_DEVPATH |-> NULL, E_ACTION |-> NULL]

\* argv entries of generated query command lines
Tokens ==
    {o_d, o_p, o_q, o_r, o_V, o_h, o_x, o_rd, o_qname, o_pblock,
     s_name, s_bogus, s_empty}

RECURSIVE SeqsUpTo(_, _)
SeqsUpTo(S, n) ==
    IF n = 0 THEN {<<>>}
    ELSE LET shorter == SeqsUpTo(S, n - 1)
         IN  shorter \cup {Append(q, t) : q \in shorter, t \in S}

HotplugArgvs == {<<s_udev, s>> : s \in Subsystems}
UserArgvs == {<<s_udev>> \o q : q \in SeqsUpTo(Tokens, MaxArgs)}
Argvs == HotplugArgvs \cup UserArgvs

\* sysfs paths that may hold a record in the device database
DbPaths == {s_slash_block}

\* the device root set up by udev_init_config
udev_root == s_dev_dir

\* records udevdb_get_dev may hand back: struct udevice, every field a
\* string that fits its buffer
Records ==
    {[name |-> s_sda, symlink |-> s_disk, owner |-> s_root, group |-> s_disk],
     [name |-> s_ttyUSB0, symlink |-> s_empty, owner |-> s_uucp, group |-> s_tty]}
NoRecord ==
    [name |-> s_empty, symlink |-> s_empty, owner |-> s_empty, group |-> s_empty]

\* return values of the collaborators that report a status
CollabRets == {-EACCES, -1, 0, 1}

\* signals the environment may deliver
Signals == {SIGHUP, SIGINT, SIGKILL, SIGTERM}

\* ------------------------------------------------------------------- state
VARIABLES
    argv,        \* main's argument vector, argv[1] the program name
    env,         \* process environment: DEVPATH and ACTION
    pc,          \* position of the process
    subsystem,   \* udev_hotplug: argv[1]
    devpath,     \* udev_hotplug: char *devpath
    action,      \* udev_hotplug: char *action
    retval,      \* int retval of udev_hotplug / udev_user, set on entry
    optind,      \* getopt: index in argv of the next entry to scan
    nextchar,    \* getopt: position inside a clustered entry, 0 if none
    root,        \* udev_user: int root
    query,       \* udev_user: enum query_type
    path,        \* udev_user: char path[NAME_SIZE]
    out,         \* udev_user: what was printed on standard output
    seen,        \* udev_user: <<option, optarg>> of every option getopt returned
    status,      \* main's retval: what udev_hotplug / udev_user returned,
                 \* or the value passed to exit()
    handlers,    \* signals whose disposition is sig_handler
    bus,         \* system message bus connected
    dbh,         \* database handle: "closed", "rw" or "ro"
    db,          \* paths that have a record in the device database
    trace,       \* collaborator calls so far, <<name, return value>>
    caught,      \* signal numbers sig_handler was entered with
    mode,        \* which of udev_hotplug / udev_user main called, "none" before
    prev,        \* earlier invocations for the same device, oldest first
    dev,         \* udev_user: struct udevice dev
    result       \* udev_user: char result[NAME_SIZE]

vars == <<argv, env, pc, subsystem, devpath, action, retval, optind, nextchar,
          root, query, path, out, seen, status, handlers, bus, dbh, db, trace,
          caught, mode, prev, dev, result>>

hotplugLocals == <<subsystem, devpath, action>>
scan == <<optind, nextchar, seen>>
userLocals == <<scan, root, query, path, out>>
inputs == <<argv, env>>
resources == <<bus, dbh, db>>
session == <<mode, prev>>
lookup == <<dev, result>>

argc == Len(argv)

Init ==
    /\ argv \in Argvs
    \* udev_user reads no environment variable: command lines with other than
    \* one argument are paired with the empty environment only
    /\ env \in Envs
    /\ (Len(argv) # 2 => env = EmptyEnv)
    /\ db \in SUBSET DbPaths
    /\ pc = "main"
    /\ subsystem = NULL
    /\ devpath = NULL
    /\ action = NULL
    /\ retval = 0
    /\ optind = 2
    /\ nextchar = 0
    /\ root = 0
    /\ query = "NONE"
    /\ path = s_empty
    /\ out = <<>>
    /\ seen = <<>>
    /\ status = 0
    /\ handlers = {}
    /\ bus = FALSE
    /\ dbh = "closed"
    /\ trace = <<>>
    /\ caught = <<>>
    /\ mode = "none"
    /\ prev = <<>>
    /\ dev = NoRecord
    /\ result = s_empty

Call(name, ret) == trace' = Append(trace, <<name, ret>>)

\* -------------------------------------------------------------------- main
\* the mode test without the look at argv[1][0]
HotplugMode_argc_only(av) == Len(av) = 2

\* if (argc == 2 && argv[1][0] != '-')
HotplugMode(av) == Len(av) = 2 /\ (Len(av[2]) = 0 \/ av[2][1] # "-")

main ==
    /\ pc = "main"
    /\ pc' = IF HotplugMode(argv) THEN "hotplug" ELSE "user"
    /\ mode' = pc'
    /\ UNCHANGED <<inputs, prev, lookup, hotplugLocals, retval, userLocals, status, handlers,
                   resources, trace, caught>>

\* return retval;
main_return ==
    /\ pc \in {"hotplug_returned", "user_returned"}
    /\ pc' = "exited"
    /\ UNCHANGED <<inputs, session, lookup, hotplugLocals, retval, userLocals, status, handlers,
                   resources, trace, caught>>

\* ------------------------------------------------------------ collaborators
\* udevdb_init / udevdb_open_ro: the handle is held exactly when 0 is returned
HandleAfterOpen(h, r, kind) == IF r = 0 THEN kind ELSE h

\* udev_add_device: on success the database holds a record keyed by the path
DbAfterAdd(d, p, r) == IF r = 0 THEN d \cup {p} ELSE d

\* udev_remove_device: on success the record keyed by the path is gone
DbAfterRemove(d, p, r) == IF r = 0 THEN d \ {p} ELSE d

\* ------------------------------------------------------------ udev_hotplug
subsystem_blacklist ==
    <<s_net, s_scsi_host, s_scsi_device, s_usb_host, s_pci_bus, s_empty>>

\* the blacklist scan stopping one entry short
RECURSIVE blacklisted_short(_, _)
blacklisted_short(sub, i) ==
    IF i >= Len(subsystem_blacklist) - 1 THEN FALSE
    ELSE IF strcmp(sub, subsystem_blacklist[i]) = 0 THEN TRUE
    ELSE blacklisted_short(sub, i + 1)

\* while (subsystem_blacklist[i][0] != '\0') { if (strcmp(...) == 0) goto exit; i++; }
RECURSIVE blacklisted(_, _)
blacklisted(sub, i) ==
    IF Len(subsystem_blacklist[i]) = 0 THEN FALSE
    ELSE IF strcmp(sub, subsystem_blacklist[i]) = 0 THEN TRUE
    ELSE blacklisted(sub, i + 1)

\* int retval = -EINVAL; subsystem = argv[1]; devpath = get_devpath();
\* if (!devpath) goto exit;
hp_get_devpath ==
    /\ pc = "hotplug"
    /\ retval' = -EINVAL
    /\ subsystem' = Ptr(argv[2])
    /\ devpath' = env.E_DEVPATH
    /\ pc' = IF env.E_DEVPATH = NULL THEN "exit" ELSE "hp_class_block"
    /\ UNCHANGED <<inputs, session, lookup, action, userLocals, status, handlers, resources,
                   trace, caught>>

\* if (!strstr(devpath, "class") && !strstr(devpath, "block")) goto exit;
hp_class_block ==
    /\ pc = "hp_class_block"
    /\ pc' = IF ~strstr(Deref(devpath), s_class) /\ ~strstr(Deref(devpath), s_block)
             THEN "exit" ELSE "hp_blacklist"
    /\ UNCHANGED <<inputs, session, lookup, hotplugLocals, retval, userLocals, status, handlers,
                   resources, trace, caught>>

\* skip blacklisted subsystems
hp_blacklist ==
    /\ pc = "hp_blacklist"
    /\ pc' = IF blacklisted(Deref(subsystem), 1) THEN "exit" ELSE "hp_get_action"
    /\ UNCHANGED <<inputs, session, lookup, hotplugLocals, retval, userLocals, status, handlers,
                   resources, trace, caught>>

\* action = get_action(); if (!action) goto exit;
hp_get_action ==
    /\ pc = "hp_get_action"
    /\ action' = env.E_ACTION
    /\ pc' = IF env.E_ACTION = NULL THEN "exit" ELSE "hp_sysbus_connect"
    /\ UNCHANGED <<inputs, session, lookup, subsystem, devpath, retval, userLocals, status,
                   handlers, resources, trace, caught>>

\* sysbus_connect(); best effort, the outcome is not examined
hp_sysbus_connect ==
    /\ pc = "hp_sysbus_connect"
    /\ \E connected \in BOOLEAN : bus' = connected
    /\ Call("sysbus_connect", 0)
    /\ pc' = "hp_udevdb_init"
    /\ UNCHANGED <<inputs, session, lookup, hotplugLocals, retval, userLocals, status, handlers,
                   dbh, db, caught>>

\* udevdb_init failing with goto exit, past the bus teardown
hp_udevdb_init_goto_exit ==
    /\ pc = "hp_udevdb_init"
    /\ \E r \in CollabRets :
        /\ retval' = r
        /\ dbh' = HandleAfterOpen(dbh, r, "rw")
        /\ Call("udevdb_init", r)
        /\ pc' = IF r # 0 THEN "exit" ELSE "hp_signal_int"
    /\ UNCHANGED <<inputs, session, lookup, hotplugLocals, userLocals, status, handlers, bus, db,
                   caught>>

\* retval = udevdb_init(UDEVDB_DEFAULT); if (retval != 0) goto exit_sysbus;
hp_udevdb_init ==
    /\ pc = "hp_udevdb_init"
    /\ \E r \in CollabRets :
        /\ retval' = r
        /\ dbh' = HandleAfterOpen(dbh, r, "rw")
        /\ Call("udevdb_init", r)
        /\ pc' = IF r # 0 THEN "exit_sysbus" ELSE "hp_signal_int"
    /\ UNCHANGED <<inputs, session, lookup, hotplugLocals, userLocals, status, handlers, bus, db,
                   caught>>

\* signal(SIGINT, sig_handler);
hp_signal_int ==
    /\ pc = "hp_signal_int"
    /\ handlers' = handlers \cup {SIGINT}
    /\ Call("signal", SIGINT)
    /\ pc' = "hp_signal_term"
    /\ UNCHANGED <<inputs, session, lookup, hotplugLocals, retval, userLocals, status, resources,
                   caught>>

\* signal(SIGTERM, sig_handler);
hp_signal_term ==
    /\ pc = "hp_signal_term"
    /\ handlers' = handlers \cup {SIGTERM}
    /\ Call("signal", SIGTERM)
    /\ pc' = "hp_signal_kill"
    /\ UNCHANGED <<inputs, session, lookup, hotplugLocals, retval, userLocals, status, resources,
                   caught>>

\* signal(SIGKILL, sig_handler); the disposition of SIGKILL cannot be changed,
\* the call fails and its result is not examined
hp_signal_kill ==
    /\ pc = "hp_signal_kill"
    /\ Call("signal", SIGKILL)
    /\ pc' = "hp_namedev_init"
    /\ UNCHANGED <<inputs, session, lookup, hotplugLocals, retval, userLocals, status, handlers,
                   resources, caught>>

\* namedev_init();
hp_namedev_init ==
    /\ pc = "hp_namedev_init"
    /\ Call("namedev_init", 0)
    /\ pc' = "hp_dispatch"
    /\ UNCHANGED <<inputs, session, lookup, hotplugLocals, retval, userLocals, status, handlers,
                   resources, caught>>

\* if (strcmp(action, "add") == 0) retval = udev_add_device(devpath, subsystem);
hp_add ==
    /\ pc = "hp_dispatch"
    /\ strcmp(Deref(action), s_add) = 0
    /\ \E r \in CollabRets :
        /\ retval' = r
        /\ db' = DbAfterAdd(db, Deref(devpath), r)
        /\ Call("udev_add_device", r)
    /\ pc' = "hp_udevdb_exit"
    /\ UNCHANGED <<inputs, session, lookup, hotplugLocals, userLocals, status, handlers, bus, dbh,
                   caught>>

\* udev_remove_device called with its two arguments exchanged
hp_remove_swapped_arguments ==
    /\ pc = "hp_dispatch"
    /\ strcmp(Deref(action), s_add) # 0
    /\ strcmp(Deref(action), s_remove) = 0
    /\ \E r \in CollabRets :
        /\ retval' = r
        /\ db' = DbAfterRemove(db, Deref(subsystem), r)
        /\ Call("udev_remove_device", r)
    /\ pc' = "hp_udevdb_exit"
    /\ UNCHANGED <<inputs, session, lookup, hotplugLocals, userLocals, status, handlers, bus, dbh,
                   caught>>

\* else if (strcmp(action, "remove") == 0)
\*     retval = udev_remove_device(devpath, subsystem);
hp_remove ==
    /\ pc = "hp_dispatch"
    /\ strcmp(Deref(action), s_add) # 0
    /\ strcmp(Deref(action), s_remove) = 0
    /\ \E r \in CollabRets :
        /\ retval' = r
        /\ db' = DbAfterRemove(db, Deref(devpath), r)
        /\ Call("udev_remove_device", r)
    /\ pc' = "hp_udevdb_exit"
    /\ UNCHANGED <<inputs, session, lookup, hotplugLocals, userLocals, status, handlers, bus, dbh,
                   caught>>

\* else { dbg("unknown action '%s'", action); retval = -EINVAL; }
hp_unknown_action ==
    /\ pc = "hp_dispatch"
    /\ strcmp(Deref(action), s_add) # 0
    /\ strcmp(Deref(action), s_remove) # 0
    /\ retval' = -EINVAL
    /\ pc' = "hp_udevdb_exit"
    /\ UNCHANGED <<inputs, session, lookup, hotplugLocals, userLocals, status, handlers,
                   resources, trace, caught>>

\* the bus disconnected before the database is closed
hp_udevdb_exit_after_disconnect ==
    /\ pc = "hp_udevdb_exit"
    /\ bus' = FALSE
    /\ dbh' = "closed"
    /\ trace' = trace \o << <<"sysbus_disconnect", 0>>, <<"udevdb_exit", 0>> >>
    /\ pc' = "exit"
    /\ UNCHANGED <<inputs, session, lookup, hotplugLocals, retval, userLocals, status, handlers,
                   db, caught>>

\* udevdb_exit();
hp_udevdb_exit ==
    /\ pc = "hp_udevdb_exit"
    /\ dbh' = "closed"
    /\ Call("udevdb_exit", 0)
    /\ pc' = "exit_sysbus"
    /\ UNCHANGED <<inputs, session, lookup, hotplugLocals, retval, userLocals, status, handlers,
                   bus, db, caught>>

\* exit_sysbus: sysbus_disconnect();
hp_exit_sysbus ==
    /\ pc = "exit_sysbus"
    /\ bus' = FALSE
    /\ Call("sysbus_disconnect", 0)
    /\ pc' = "exit"
    /\ UNCHANGED <<inputs, session, lookup, hotplugLocals, retval, userLocals, status, handlers,
                   dbh, db, caught>>

\* the exit label without the clamp of positive results
ExitStatus_unclamped(r) == 0 - r

\* the status computed at the exit label from the accumulated result
ExitStatus(r) == IF r > 0 THEN 0 ELSE 0 - r

\* exit: if (retval > 0) retval = 0; return -retval;
hp_exit ==
    /\ pc = "exit"
    /\ status' = ExitStatus(retval)
    /\ pc' = "hotplug_returned"
    /\ UNCHANGED <<inputs, session, lookup, hotplugLocals, retval, userLocals, handlers,
                   resources, trace, caught>>

\* ------------------------------------------------------------- sig_handler
Fatal == {SIGINT, SIGTERM, SIGKILL}

\* the handler tearing down without ending the process
sig_handler_no_exit(signum) ==
    /\ Len(caught) < MaxCaught
    /\ caught' = Append(caught, signum)
    /\ IF signum \in Fatal
       THEN /\ bus' = FALSE
            /\ dbh' = "closed"
            /\ trace' = trace \o << <<"sysbus_disconnect", 0>>, <<"udevdb_exit", 0>> >>
            /\ UNCHANGED <<inputs, session, lookup, pc, hotplugLocals, retval, userLocals, status,
                           handlers, db>>
       ELSE UNCHANGED <<inputs, session, lookup, pc, hotplugLocals, retval, userLocals, status,
                        handlers, resources, trace>>

\* the handler body, entered with signum
sig_handler(signum) ==
    /\ Len(caught) < MaxCaught
    /\ caught' = Append(caught, signum)
    /\ IF signum \in Fatal
       THEN /\ bus' = FALSE
            /\ dbh' = "closed"
            /\ trace' = trace \o << <<"sysbus_disconnect", 0>>, <<"udevdb_exit", 0>> >>
            /\ status' = 20 + signum
            /\ pc' = "exited"
            /\ UNCHANGED <<inputs, session, lookup, hotplugLocals, retval, userLocals, handlers, db>>
       ELSE UNCHANGED <<inputs, session, lookup, pc, hotplugLocals, retval, userLocals, status,
                        handlers, resources, trace>>

Alive == pc \notin {"exited", "killed"}

\* a signal whose disposition is sig_handler interrupts the process
signal_caught ==
    /\ Alive
    /\ \E signum \in Signals :
        /\ signum \in handlers
        /\ sig_handler(signum)

\* a signal left at its default disposition ends the process at once
signal_default ==
    /\ Alive
    /\ \E signum \in Signals :
        /\ signum \notin handlers
        /\ pc' = "killed"
    /\ UNCHANGED <<inputs, session, lookup, hotplugLocals, retval, userLocals, status, handlers,
                   resources, trace, caught>>

\* ------------------------------------------------------------------ getopt
\* static const char short_options[] = "dp:q:rVh";
short_options == <<"d","p",":","q",":","r","V","h">>

EOF == "-1"

OptionChar(c) ==
    c # ":" /\ \E i \in 1..Len(short_options) : short_options[i] = c

TakesArgument(c) ==
    \E i \in 1..(Len(short_options) - 1) :
        short_options[i] = c /\ short_options[i + 1] = ":"

\* an argv entry that getopt scans for options: "-" followed by something
OptionEntry(e) == Len(e) >= 2 /\ e[1] = "-"

\* index of the first option entry of av at or after k, 0 if there is none;
\* entries that are not options are skipped (argv is permuted)
RECURSIVE NextOptionEntry(_, _)
NextOptionEntry(av, k) ==
    IF k > Len(av) THEN 0
    ELSE IF OptionEntry(av[k]) THEN k
    ELSE NextOptionEntry(av, k + 1)

\* getopt(argc, argv, short_options) called with the scan at (oi, nc):
\* the option character ("?" for an unknown option or a missing argument,
\* EOF at the end of the options), optarg, and the scan position afterwards
getopt(av, oi, nc) ==
    LET k == IF nc > 0 THEN oi ELSE NextOptionEntry(av, oi)
    IN  IF k = 0 \/ (nc = 0 /\ av[k] = o_dashdash)
        THEN [opt |-> EOF, optarg |-> NULL, optind |-> oi, nextchar |-> 0]
        ELSE LET e == av[k]
                 pos == IF nc > 0 THEN nc ELSE 2
                 c == e[pos]
                 last == pos = Len(e)
                 after == [optind |-> IF last THEN k + 1 ELSE k,
                           nextchar |-> IF last THEN 0 ELSE pos + 1]
             IN  IF ~OptionChar(c)
                 THEN [opt |-> "?", optarg |-> NULL,
                       optind |-> after.optind, nextchar |-> after.nextchar]
                 ELSE IF ~TakesArgument(c)
                 THEN [opt |-> c, optarg |-> NULL,
                       optind |-> after.optind, nextchar |-> after.nextchar]
                 ELSE IF ~last
                 THEN [opt |-> c, optarg |-> Ptr(SubSeq(e, pos + 1, Len(e))),
                       optind |-> k + 1, nextchar |-> 0]
                 ELSE IF k + 1 <= Len(av)
                 THEN [opt |-> c, optarg |-> Ptr(av[k + 1]),
                       optind |-> k + 2, nextchar |-> 0]
                 ELSE [opt |-> "?", optarg |-> NULL,
                       optind |-> k + 1, nextchar |-> 0]

\* --------------------------------------------------------------- udev_user
option == getopt(argv, optind, nextchar)

\* the scan moves on; dbg("option '%c'", option) logs the option
Advance ==
    /\ optind' = option.optind
    /\ nextchar' = option.nextchar
    /\ seen' = Append(seen, <<option.opt, option.optarg>>)

printf(msg) == out' = Append(out, msg)

\* int retval = -EINVAL; int root = 0; enum query_type query = NONE;
\* char path[NAME_SIZE] = "";
user_entry ==
    /\ pc = "user"
    /\ retval' = -EINVAL
    /\ root' = 0
    /\ query' = "NONE"
    /\ path' = s_empty
    /\ pc' = "getopt"
    /\ UNCHANGED <<inputs, session, lookup, hotplugLocals, scan, out, status, handlers,
                   resources, trace, caught>>

\* option == -1: break out of the option loop
opt_end ==
    /\ pc = "getopt"
    /\ option.opt = EOF
    /\ optind' = option.optind
    /\ nextchar' = option.nextchar
    /\ pc' = "process"
    /\ UNCHANGED <<inputs, session, lookup, hotplugLocals, retval, seen, root, query, path, out,
                   status, handlers, resources, trace, caught>>

\* case 'p': strfieldcpy(path, optarg); break;
opt_p ==
    /\ pc = "getopt"
    /\ option.opt = "p"
    /\ Advance
    /\ path' = strfieldcpy(Deref(option.optarg))
    /\ UNCHANGED <<inputs, session, lookup, pc, hotplugLocals, retval, root, query, out, status,
                   handlers, resources, trace, caught>>

\* the query_type named by the argument of -q, NONE if it names none
QueryType(arg) ==
    IF strcmp(arg, s_name) = 0 THEN "NAME"
    ELSE IF strcmp(arg, s_symlink) = 0 THEN "SYMLINK"
    ELSE IF strcmp(arg, s_owner) = 0 THEN "OWNER"
    ELSE IF strcmp(arg, s_group) = 0 THEN "GROUP"
    ELSE "NONE"

\* -q with an unknown TYPE breaking out of the switch instead of returning
opt_q_unknown_ignored ==
    /\ pc = "getopt"
    /\ option.opt = "q"
    /\ Advance
    /\ LET type == QueryType(Deref(option.optarg))
       IN  IF type # "NONE"
           THEN /\ query' = type
                /\ UNCHANGED out
           ELSE /\ printf("unknown query type")
                /\ UNCHANGED query
    /\ UNCHANGED <<inputs, session, lookup, pc, hotplugLocals, retval, root, path, status,
                   handlers, resources, trace, caught>>

\* case 'q': a known TYPE sets query and breaks; otherwise
\* printf("unknown query type\n"); return -EINVAL;
opt_q ==
    /\ pc = "getopt"
    /\ option.opt = "q"
    /\ Advance
    /\ LET type == QueryType(Deref(option.optarg))
       IN  IF type # "NONE"
           THEN /\ query' = type
                /\ UNCHANGED <<pc, status, out>>
           ELSE /\ status' = -EINVAL
                /\ printf("unknown query type")
                /\ pc' = "user_returned"
                /\ UNCHANGED query
    /\ UNCHANGED <<inputs, session, lookup, hotplugLocals, retval, root, path, handlers,
                   resources, trace, caught>>

\* case 'r': root = 1; break;
opt_r ==
    /\ pc = "getopt"
    /\ option.opt = "r"
    /\ Advance
    /\ root' = 1
    /\ UNCHANGED <<inputs, session, lookup, pc, hotplugLocals, retval, query, path, out, status,
                   handlers, resources, trace, caught>>

\* -d breaking out of the switch when the database cannot be opened
opt_d_break_on_failure ==
    /\ pc = "getopt"
    /\ option.opt = "d"
    /\ Advance
    /\ \E r \in CollabRets :
        /\ retval' = r
        /\ dbh' = HandleAfterOpen(dbh, r, "ro")
        /\ Call("udevdb_open_ro", r)
        /\ IF r # 0
           THEN /\ printf("unable to open udev database")
                /\ UNCHANGED <<pc, status>>
           ELSE /\ pc' = "dump"
                /\ UNCHANGED <<status, out>>
    /\ UNCHANGED <<inputs, session, lookup, hotplugLocals, root, query, path, handlers,
                   bus, db, caught>>

\* case 'd': retval = udevdb_open_ro();
\* if (retval != 0) { printf("unable to open udev database\n"); return -EACCES; }
opt_d ==
    /\ pc = "getopt"
    /\ option.opt = "d"
    /\ Advance
    /\ \E r \in CollabRets :
        /\ retval' = r
        /\ dbh' = HandleAfterOpen(dbh, r, "ro")
        /\ Call("udevdb_open_ro", r)
        /\ IF r # 0
           THEN /\ status' = -EACCES
                /\ printf("unable to open udev database")
                /\ pc' = "user_returned"
           ELSE /\ pc' = "dump"
                /\ UNCHANGED <<status, out>>
    /\ UNCHANGED <<inputs, session, lookup, hotplugLocals, root, query, path, handlers, bus, db,
                   caught>>

\* retval = udevdb_dump(print_record); udevdb_exit(); return retval;
user_dump ==
    /\ pc = "dump"
    /\ \E r \in CollabRets :
        /\ retval' = r
        /\ status' = r
        /\ trace' = trace \o << <<"udevdb_dump", r>>, <<"udevdb_exit", 0>> >>
    /\ printf("records")
    /\ dbh' = "closed"
    /\ pc' = "user_returned"
    /\ UNCHANGED <<inputs, session, lookup, hotplugLocals, scan, root, query, path, handlers, bus,
                   db, caught>>

\* case 'V': printf("udev, version %s\n", UDEV_VERSION); return 0;
opt_V ==
    /\ pc = "getopt"
    /\ option.opt = "V"
    /\ Advance
    /\ status' = 0
    /\ printf("udev, version")
    /\ pc' = "user_returned"
    /\ UNCHANGED <<inputs, session, lookup, hotplugLocals, retval, root, query, path, handlers,
                   resources, trace, caught>>

\* case 'h': retval = 0; falls through to goto help
opt_h ==
    /\ pc = "getopt"
    /\ option.opt = "h"
    /\ Advance
    /\ retval' = 0
    /\ pc' = "help"
    /\ UNCHANGED <<inputs, session, lookup, hotplugLocals, root, query, path, out, status,
                   handlers, resources, trace, caught>>

\* case '?': default: goto help;
opt_unknown ==
    /\ pc = "getopt"
    /\ option.opt = "?"
    /\ Advance
    /\ pc' = "help"
    /\ UNCHANGED <<inputs, session, lookup, hotplugLocals, retval, root, query, path, out, status,
                   handlers, resources, trace, caught>>

\* if (query != NONE) { if (path[0] == '\0') {
\*     printf("query needs device path specified\n"); return -EINVAL; }
user_query_no_path ==
    /\ pc = "process"
    /\ query # "NONE"
    /\ Len(path) = 0
    /\ status' = -EINVAL
    /\ printf("query needs device path specified")
    /\ pc' = "user_returned"
    /\ UNCHANGED <<inputs, session, lookup, hotplugLocals, retval, scan, root, query, path,
                   handlers, resources, trace, caught>>

\* the query opening the database as udev_hotplug does, through udevdb_init
user_query_open_read_write ==
    /\ pc = "process"
    /\ query # "NONE"
    /\ Len(path) # 0
    /\ \E r \in CollabRets :
        /\ retval' = r
        /\ dbh' = HandleAfterOpen(dbh, r, "rw")
        /\ Call("udevdb_init", r)
        /\ IF r # 0
           THEN /\ status' = -EACCES
                /\ printf("unable to open udev database")
                /\ pc' = "user_returned"
           ELSE /\ pc' = "lookup"
                /\ UNCHANGED <<status, out>>
    /\ UNCHANGED <<inputs, session, lookup, hotplugLocals, scan, root, query, path, handlers, bus,
                   db, caught>>

\* retval = udevdb_open_ro();
\* if (retval != 0) { printf("unable to open udev database\n"); return -EACCES; }
user_query_open ==
    /\ pc = "process"
    /\ query # "NONE"
    /\ Len(path) # 0
    /\ \E r \in CollabRets :
        /\ retval' = r
        /\ dbh' = HandleAfterOpen(dbh, r, "ro")
        /\ Call("udevdb_open_ro", r)
        /\ IF r # 0
           THEN /\ status' = -EACCES
                /\ printf("unable to open udev database")
                /\ pc' = "user_returned"
           ELSE /\ pc' = "lookup"
                /\ UNCHANGED <<status, out>>
    /\ UNCHANGED <<inputs, session, lookup, hotplugLocals, scan, root, query, path, handlers, bus,
                   db, caught>>

\* udevdb_get_dev: 0 exactly when the database holds a record for the path
LookupRets(d, p) == {r \in CollabRets : (r = 0) <=> (p \in d)}

\* the lookup returning at once when the record is not found
user_lookup_early_return ==
    /\ pc = "lookup"
    /\ \E r \in LookupRets(db, path) :
        /\ retval' = r
        /\ Call("udevdb_get_dev", r)
        /\ printf(IF r = 0 THEN "result" ELSE "device not found in udev database")
        /\ status' = IF r = 0 THEN status ELSE r
        /\ pc' = IF r = 0 THEN "query_exit" ELSE "user_returned"
    /\ UNCHANGED <<inputs, session, lookup, hotplugLocals, scan, root, query, path, handlers,
                   resources, caught>>

\* strncat(dest, src, n): dest followed by at most n characters of src
Shortest(a, b) == IF a < b THEN a ELSE b
strncat(dest, src, n) == dest \o SubSeq(src, 1, Shortest(Len(src), n))

\* the characters and the terminator strncat writes do not fit the buffer
Overflows(dest, src, n) == Len(dest) + Shortest(Len(src), n) + 1 > NAME_SIZE

\* the switch on query with "if (root)" guarding the strncat as well
QueryResult_root_guards_both(q, rt, d, res) ==
    IF q = "NAME"
    THEN IF rt # 0 THEN strncat(strfieldcpy(udev_root), d.name, NAME_SIZE) ELSE res
    ELSE IF q = "SYMLINK" THEN strfieldcpy(d.symlink)
    ELSE IF q = "GROUP" THEN strfieldcpy(d.group)
    ELSE IF q = "OWNER" THEN strfieldcpy(d.owner)
    ELSE res

\* switch(query): what result holds afterwards, res being what it held before
QueryResult(q, rt, d, res) ==
    IF q = "NAME"
    THEN strncat(IF rt # 0 THEN strfieldcpy(udev_root) ELSE res, d.name, NAME_SIZE)
    ELSE IF q = "SYMLINK" THEN strfieldcpy(d.symlink)
    ELSE IF q = "GROUP" THEN strfieldcpy(d.group)
    ELSE IF q = "OWNER" THEN strfieldcpy(d.owner)
    ELSE res

\* case NAME writes past the end of result
ResultOverflows(q, rt, d, res) ==
    /\ q = "NAME"
    /\ Overflows(IF rt # 0 THEN strfieldcpy(udev_root) ELSE res, d.name, NAME_SIZE)

\* retval = udevdb_get_dev(path, &dev); the result or
\* "device not found in udev database" is printed. Writing past the end of
\* result is undefined: the characters land behind the buffer and are printed
\* from there, or the run-time check of the build aborts the process
user_lookup ==
    /\ pc = "lookup"
    /\ \E r \in LookupRets(db, path) :
        /\ retval' = r
        /\ Call("udevdb_get_dev", r)
        /\ IF r = 0
           THEN \E d \in Records :
                /\ dev' = d
                /\ \/ /\ result' = QueryResult(query, root, d, result)
                      /\ printf("result")
                      /\ pc' = "query_exit"
                   \/ /\ ResultOverflows(query, root, d, result)
                      /\ pc' = "killed"
                      /\ UNCHANGED <<result, out>>
           ELSE /\ printf("device not found in udev database")
                /\ pc' = "query_exit"
                /\ UNCHANGED <<dev, result>>
    /\ UNCHANGED <<inputs, session, hotplugLocals, scan, root, query, path, status,
                   handlers, resources, caught>>

\* udevdb_exit(); return retval;
user_query_exit ==
    /\ pc = "query_exit"
    /\ dbh' = "closed"
    /\ Call("udevdb_exit", 0)
    /\ status' = retval
    /\ pc' = "user_returned"
    /\ UNCHANGED <<inputs, session, lookup, hotplugLocals, retval, userLocals, handlers, bus, db,
                   caught>>

\* the root branch taken without regard to a requested query
user_root_before_query ==
    /\ pc = "process"
    /\ root # 0
    /\ status' = 0
    /\ printf("udev_root")
    /\ pc' = "user_returned"
    /\ UNCHANGED <<inputs, session, lookup, hotplugLocals, retval, scan, root, query, path,
                   handlers, resources, trace, caught>>

\* if (root) { printf("%s\n", udev_root); return 0; }
user_root ==
    /\ pc = "process"
    /\ query = "NONE"
    /\ root # 0
    /\ status' = 0
    /\ printf("udev_root")
    /\ pc' = "user_returned"
    /\ UNCHANGED <<inputs, session, lookup, hotplugLocals, retval, scan, root, query, path,
                   handlers, resources, trace, caught>>

\* no query and no root: control reaches the help label
user_no_operation ==
    /\ pc = "process"
    /\ query = "NONE"
    /\ root = 0
    /\ pc' = "help"
    /\ UNCHANGED <<inputs, session, lookup, hotplugLocals, retval, userLocals, status, handlers,
                   resources, trace, caught>>

\* help: printf("Usage: [-pqrdVh]\n" ...); return retval;
user_help ==
    /\ pc = "help"
    /\ printf("Usage")
    /\ status' = retval
    /\ pc' = "user_returned"
    /\ UNCHANGED <<inputs, session, lookup, hotplugLocals, retval, scan, root, query, path,
                   handlers, resources, trace, caught>>

\* ---------------------------------------------------------- specifications
Next ==
    \/ main
    \/ main_return
    \/ hp_get_devpath
    \/ hp_class_block
    \/ hp_blacklist
    \/ hp_get_action
    \/ hp_sysbus_connect
    \/ hp_udevdb_init
    \/ hp_signal_int
    \/ hp_signal_term
    \/ hp_signal_kill
    \/ hp_namedev_init
    \/ hp_add
    \/ hp_remove
    \/ hp_unknown_action
    \/ hp_udevdb_exit
    \/ hp_exit_sysbus
    \/ hp_exit
    \/ signal_caught
    \/ signal_default
    \/ user_entry
    \/ opt_end
    \/ opt_p
    \/ opt_q
    \/ opt_r
    \/ opt_d
    \/ user_dump
    \/ opt_V
    \/ opt_h
    \/ opt_unknown
    \/ user_query_no_path
    \/ user_query_open
    \/ user_lookup
    \/ user_query_exit
    \/ user_root
    \/ user_no_operation
    \/ user_help

Spec == Init /\ [][Next]_vars

\* sig_handler exercised as a function: entered with any signal number while
\* it is installed, whatever made the call
sig_handler_any ==
    /\ Alive
    /\ handlers # {}
    /\ \E signum \in Signals : sig_handler(signum)

NextSig == Next \/ sig_handler_any

SpecSig == Init /\ [][NextSig]_vars

\* the event source runs the program again for the same device: a new process
\* with the same argv[1] and DEVPATH and any ACTION, started once main of the
\* earlier one has returned; the device database is what outlives the process
next_event ==
    /\ pc = "exited"
    /\ mode = "hotplug"
    /\ caught = <<>>
    /\ Len(prev) < MaxEvents - 1
    /\ prev' = Append(prev, env.E_ACTION)
    /\ \E a \in ActionEnv : env' = [env EXCEPT !.E_ACTION = a]
    /\ pc' = "main"
    /\ mode' = "none"
    /\ subsystem' = NULL
    /\ devpath' = NULL
    /\ action' = NULL
    /\ retval' = 0
    /\ status' = 0
    /\ handlers' = {}
    /\ bus' = FALSE
    /\ dbh' = "closed"
    /\ trace' = <<>>
    /\ UNCHANGED <<argv, db, caught, scan, root, query, path, out, lookup>>

NextEvents == Next \/ next_event

SpecEvents == Init /\ [][NextEvents]_vars

\* ------------------------------------------------------------------ claims
Count(name) == Cardinality({i \in DOMAIN trace : trace[i][1] = name})
Returned(name, r) == \E i \in DOMAIN trace : trace[i] = <<name, r>>
Printed(msg) == \E i \in DOMAIN out : out[i] = msg

\* the event as the event source supplied it
BlacklistSet == {s_net, s_scsi_host, s_scsi_device, s_usb_host, s_pci_bus}
DevpathManaged ==
    /\ env.E_DEVPATH # NULL
    /\ \/ strstr(Deref(env.E_DEVPATH), s_class)
       \/ strstr(Deref(env.E_DEVPATH), s_block)
Irrelevant ==
    \/ ~DevpathManaged
    \/ argv[2] \in BlacklistSet
    \/ env.E_ACTION = NULL
HotplugReturned == pc = "hotplug_returned"
UserReturned == pc = "user_returned"

\* C1: for every irrelevant hotplug event (DEVPATH absent, DEVPATH without
\* "class" and "block", blacklisted subsystem, ACTION absent) udev_hotplug
\* returns the non-error status 0.
C1_IrrelevantReturnsZero ==
    (HotplugReturned /\ Irrelevant) => status = 0

\* C2: for every irrelevant hotplug event udev_hotplug is a no-op: no
\* collaborator is called, no signal handler is installed, and the database,
\* its handle and the bus are left as they were, whatever the other fields are.
C2_IrrelevantNoOp ==
    /\ [](HotplugMode(argv) /\ Irrelevant =>
            /\ trace = <<>>
            /\ handlers = {}
            /\ bus = FALSE
            /\ dbh = "closed")
    /\ [][HotplugMode(argv) /\ Irrelevant => db' = db]_vars

C2_Witness ==
    /\ HotplugReturned
    /\ argv[2] = s_pci_bus
    /\ env.E_DEVPATH = Ptr(s_slash_block)
    /\ env.E_ACTION = Ptr(s_add)
    /\ db = {s_slash_block}

\* C3: when udev_hotplug returns, udev_add_device has been called exactly once
\* if DEVPATH is present and contains "class" or "block", the subsystem is not
\* blacklisted, ACTION is exactly "add" and udevdb_init returned 0, and not at
\* all otherwise; likewise udev_remove_device with ACTION exactly "remove"; at
\* no time have both been called or either more than once, whatever
\* sysbus_connect achieved.
ActionIs(a) == ~Irrelevant /\ env.E_ACTION = Ptr(a) /\ Returned("udevdb_init", 0)

C3_AddRemoveDecision ==
    /\ Count("udev_add_device") + Count("udev_remove_device") <= 1
    /\ Count("udev_add_device") > 0 => ActionIs(s_add)
    /\ Count("udev_remove_device") > 0 => ActionIs(s_remove)
    /\ HotplugReturned =>
        /\ Count("udev_add_device") = (IF ActionIs(s_add) THEN 1 ELSE 0)
        /\ Count("udev_remove_device") = (IF ActionIs(s_remove) THEN 1 ELSE 0)

C3_Witness ==
    /\ HotplugReturned
    /\ Count("udev_add_device") = 1
    /\ Count("udev_remove_device") = 0
    /\ env.E_ACTION = Ptr(s_add)

\* C4: on every return of udev_hotplug each acquired handle has been released
\* exactly once: sysbus_disconnect once if sysbus_connect was called and not
\* at all otherwise, udevdb_exit once if udevdb_init returned 0 and not at all
\* otherwise.
C4_ReleasedOnce ==
    HotplugReturned =>
        /\ Count("sysbus_connect") <= 1
        /\ Count("sysbus_disconnect") = Count("sysbus_connect")
        /\ Count("udevdb_exit") = (IF Returned("udevdb_init", 0) THEN 1 ELSE 0)
        /\ bus = FALSE
        /\ dbh = "closed"

C4_Witness ==
    /\ HotplugReturned
    /\ Returned("udevdb_init", -EACCES)
    /\ Count("sysbus_disconnect") = 1
    /\ Count("udevdb_exit") = 0

\* C5: whenever udevdb_init fails (returns any nonzero value) or the dispatch
\* meets an ACTION other than "add" and "remove", udev_hotplug returns a
\* nonzero status and sysbus_disconnect has been called before it returns.
InitFailed == \E r \in CollabRets \ {0} : Returned("udevdb_init", r)
UnknownAction ==
    /\ HotplugMode(argv)
    /\ ~Irrelevant
    /\ env.E_ACTION \notin {Ptr(s_add), Ptr(s_remove)}
    /\ Returned("udevdb_init", 0)

C5_FailureReported ==
    (HotplugReturned /\ (InitFailed \/ UnknownAction)) =>
        /\ status # 0
        /\ Count("sysbus_disconnect") >= 1

\* C6: the status udev_hotplug returns is never negative: it is 0 when the
\* accumulated result is positive or zero and the negation of the result when
\* that is negative, on every exit path.
C6_StatusNormalised ==
    HotplugReturned =>
        /\ status >= 0
        /\ retval >= 0 => status = 0
        /\ retval < 0 => (status = 0 - retval /\ status > 0)

C6_Witness ==
    /\ HotplugReturned
    /\ retval > 0
    /\ status = 0
    /\ Count("udev_remove_device") = 1

\* C7: entered with SIGINT, SIGTERM or SIGKILL, sig_handler calls
\* sysbus_disconnect, then udevdb_exit, then ends the process with status
\* 20 + signum, and no step of the interrupted dispatch runs afterwards;
\* entered with any other signal number it tears nothing down and does not
\* exit.
LastCaught == caught[Len(caught)]

C7_HandlerTeardown ==
    /\ [][caught' # caught =>
            LET signum == caught'[Len(caught')]
            IN  IF signum \in {SIGINT, SIGTERM, SIGKILL}
                THEN /\ trace' = trace \o << <<"sysbus_disconnect", 0>>,
                                             <<"udevdb_exit", 0>> >>
                     /\ status' = 20 + signum
                     /\ pc' = "exited"
                ELSE /\ trace' = trace
                     /\ pc' = pc
                     /\ status' = status
                     /\ <<bus, dbh, db>>' = <<bus, dbh, db>>]_vars
    /\ [][~(caught # <<>> /\ LastCaught \in {SIGINT, SIGTERM, SIGKILL})]_vars

C7_Witness ==
    /\ caught = <<SIGHUP, SIGTERM>>
    /\ pc = "exited"
    /\ status = 20 + SIGTERM
    /\ Count("namedev_init") = 1
    /\ Count("udev_add_device") = 0
    /\ Count("udev_remove_device") = 0

\* C8: the value main returns is 0 on success and positive on every failure
\* (unknown action, database-open failure, lookup not found, invalid -q type,
\* query without a path, malformed or missing flags), never negative.
Failure ==
    \/ InitFailed
    \/ UnknownAction
    \/ Printed("unable to open udev database")
    \/ Printed("device not found in udev database")
    \/ Printed("unknown query type")
    \/ Printed("query needs device path specified")
    \/ \E i \in DOMAIN seen : seen[i][1] = "?"
    \/ (UserReturned /\ seen = <<>>)

C8_MainStatus ==
    (HotplugReturned \/ UserReturned) =>
        /\ status >= 0
        /\ Failure => status > 0

\* C9: when udev_user returns, every successful udevdb_open_ro has been
\* followed by exactly one udevdb_exit (record found, not found, or dump), and
\* udevdb_exit is never called without a successful udevdb_open_ro.
C9_QueryHandleClosed ==
    /\ ~HotplugMode(argv) =>
        Count("udevdb_exit") <= (IF Returned("udevdb_open_ro", 0) THEN 1 ELSE 0)
    /\ UserReturned =>
        /\ Count("udevdb_open_ro") <= 1
        /\ Count("udevdb_exit") = (IF Returned("udevdb_open_ro", 0) THEN 1 ELSE 0)
        /\ dbh = "closed"

C9_Witness ==
    /\ UserReturned
    /\ Returned("udevdb_open_ro", 0)
    /\ Printed("device not found in udev database")
    /\ Count("udevdb_exit") = 1

\* C10 as stated: when the option scan meets -q with a TYPE outside {name,
\* symlink, owner, group}, or when a query kind is set but no non-empty -p
\* path was given, udev_user returns an error status and has not called
\* udevdb_open_ro.
QueryTypes == {s_name, s_symlink, s_owner, s_group}
BadTypeMet ==
    \E i \in DOMAIN seen :
        seen[i][1] = "q" /\ Deref(seen[i][2]) \notin QueryTypes
RejectedBeforeOpen == status # 0 /\ Count("udevdb_open_ro") = 0

C10_Original ==
    (UserReturned /\ (BadTypeMet \/ (query # "NONE" /\ Len(path) = 0))) =>
        RejectedBeforeOpen

\* C10: when the option scan meets -q with a TYPE outside {name, symlink,
\* owner, group}, or reaches the end of the options, having met no -d, -V, -h
\* or unrecognised option, with a query kind set but no non-empty -p path,
\* udev_user returns an error status and has not called udevdb_open_ro.
ScanCutShort == \E i \in DOMAIN seen : seen[i][1] \in {"d", "V", "h", "?"}

C10_InvalidQueryRejected ==
    (UserReturned /\
        (BadTypeMet \/ (query # "NONE" /\ Len(path) = 0 /\ ~ScanCutShort))) =>
        RejectedBeforeOpen

C10_Witness ==
    /\ UserReturned
    /\ query = "NAME"
    /\ Len(path) = 0
    /\ root = 1
    /\ ~ScanCutShort
    /\ status = -EINVAL

Met(o) == \E i \in DOMAIN seen : seen[i][1] = o

\* C11 as stated: both -d and -q TYPE end the option scan: once either has
\* been met, no flag that follows it is processed.
C11_Original ==
    [][(Met("d") \/ Met("q")) => seen' = seen]_vars

\* C11: -d ends the option scan: once it has been met no flag that follows it
\* is processed and the operation is the dump (the database is opened once, no
\* lookup, no usage, version or device root is printed); -q with a TYPE
\* outside {name, symlink, owner, group} ends the scan as well; -q with a
\* valid TYPE only records the query kind and the flags after it still count.
C11_DumpEndsScan ==
    /\ [][(Met("d") \/ BadTypeMet) => seen' = seen]_vars
    /\ [](Met("d") =>
            /\ Count("udevdb_open_ro") = 1
            /\ Count("udevdb_get_dev") = 0
            /\ ~Printed("Usage")
            /\ ~Printed("udev, version")
            /\ ~Printed("udev_root"))

C11_Witness ==
    /\ UserReturned
    /\ argv = <<s_udev, o_qname, o_d, o_V>>
    /\ Len(seen) = 2
    /\ Count("udevdb_dump") = 1

\* C12: for a record found by the lookup the printed result is, for kind
\* Name, the device root followed by the record's name when -r was given and
\* the bare name otherwise; for Symlink, Owner and Group the record's field
\* whatever -r; and with a query requested the bare device root is never
\* printed in place of the result.
C12_QueryResult ==
    /\ Printed("result") =>
        /\ Returned("udevdb_get_dev", 0)
        /\ query = "NAME" /\ Met("r") => result = udev_root \o dev.name
        /\ query = "NAME" /\ ~Met("r") => result = dev.name
        /\ query = "SYMLINK" => result = dev.symlink
        /\ query = "OWNER" => result = dev.owner
        /\ query = "GROUP" => result = dev.group
    /\ (UserReturned /\ Returned("udevdb_get_dev", 0)) => Printed("result")
    /\ (mode = "user" /\ query # "NONE") => ~Printed("udev_root")

C12_Witness ==
    /\ UserReturned
    /\ Printed("result")
    /\ Met("r")
    /\ query = "NAME"
    /\ result = <<"/","d","e","v","/","s","d","a">>

\* C13: main selects Hotplug mode exactly when the argument vector has two
\* entries and the second does not begin with '-', Query mode otherwise;
\* exactly one of udev_hotplug and udev_user runs, and what it returned is the
\* value main returns.
HotplugPcs ==
    {"hotplug", "hp_class_block", "hp_blacklist", "hp_get_action",
     "hp_sysbus_connect", "hp_udevdb_init", "hp_signal_int", "hp_signal_term",
     "hp_signal_kill", "hp_namedev_init", "hp_dispatch", "hp_udevdb_exit",
     "exit_sysbus", "exit", "hotplug_returned"}
UserPcs ==
    {"user", "getopt", "dump", "process", "lookup", "query_exit", "help",
     "user_returned"}
BeginsWithDash(e) == Len(e) >= 1 /\ e[1] = "-"

C13_ModeSelection ==
    /\ [](/\ pc = "main" => mode = "none"
          /\ pc \in HotplugPcs => mode = "hotplug"
          /\ pc \in UserPcs => mode = "user"
          /\ mode = "hotplug" => (Len(argv) = 2 /\ ~BeginsWithDash(argv[2]))
          /\ mode = "user" => ~(Len(argv) = 2 /\ ~BeginsWithDash(argv[2])))
    /\ [][mode # "none" => mode' = mode]_vars
    /\ [][(pc \in {"hotplug_returned", "user_returned"} /\ caught' = caught
           /\ pc' # "killed") => (pc' = "exited" /\ status' = status)]_vars

C13_Witness ==
    /\ pc = "exited"
    /\ mode = "hotplug"
    /\ argv = <<s_udev, s_empty>>
    /\ caught = <<>>
    /\ status = EINVAL

\* the current invocation is a remove that follows an add for the same
\* devpath and subsystem, both run to main's return, and the collaborator's
\* remove, where it was called, deleted
AddThenRemove ==
    /\ pc = "exited"
    /\ mode = "hotplug"
    /\ caught = <<>>
    /\ Len(prev) >= 1
    /\ prev[Len(prev)] = Ptr(s_add)
    /\ env.E_ACTION = Ptr(s_remove)
    /\ env.E_DEVPATH # NULL
    /\ \A i \in DOMAIN trace : trace[i][1] = "udev_remove_device" => trace[i][2] = 0

C15_TeardownAtMostOnce ==
    /\ Count("udevdb_exit") <= 1
    /\ Count("sysbus_disconnect") <= 1

\* C16: in every state of hotplug dispatch in which the bus connection is
\* open or the database handle is held, sig_handler is installed for SIGINT
\* and SIGTERM.
C16_HandlerCoversHandles ==
    (mode = "hotplug" /\ Alive /\ (bus \/ dbh # "closed")) =>
        {SIGINT, SIGTERM} \subseteq handlers

\* the names of the collaborator calls made so far, in order
Names == [i \in DOMAIN trace |-> trace[i][1]]
IsPrefix(a, b) == Len(a) <= Len(b) /\ a = SubSeq(b, 1, Len(a))
Setup ==
    <<"sysbus_connect", "udevdb_init", "signal", "signal", "signal", "namedev_init">>
Teardown == <<"udevdb_exit", "sysbus_disconnect">>
Dispatches == {<<>>, <<"udev_add_device">>, <<"udev_remove_device">>}
Orders == {Setup \o d \o Teardown : d \in Dispatches}

\* C17: on a hotplug dispatch that passes the filters and whose udevdb_init
\* returned 0, with no signal caught, the collaborator calls are, in this
\* order and each once: sysbus_connect, udevdb_init, the installation of the
\* signal handler (its three signal() calls), namedev_init, at most one of
\* udev_add_device / udev_remove_device, udevdb_exit, sysbus_disconnect; at
\* every point of the run the calls made so far are a prefix of that order.
C17_CallOrder ==
    (mode = "hotplug" /\ caught = <<>> /\ Returned("udevdb_init", 0)) =>
        /\ \E o \in Orders : IsPrefix(Names, o)
        /\ HotplugReturned => Names \in Orders

C17_Witness ==
    /\ HotplugReturned
    /\ caught = <<>>
    /\ Names = Setup \o <<"udev_remove_device">> \o Teardown

\* the operations udev_user has performed
Ops ==
    {o \in {"dump", "lookup", "root", "usage", "version"} :
        \/ o = "dump" /\ Count("udevdb_dump") > 0
        \/ o = "lookup" /\ Count("udevdb_get_dev") > 0
        \/ o = "root" /\ Printed("udev_root")
        \/ o = "usage" /\ Printed("Usage")
        \/ o = "version" /\ Printed("udev, version")}

\* C18 as stated: udev_user performs exactly one operation, by the precedence
\* dump > query > root > usage: the dump if -d was reached, else the lookup
\* if a query kind is set, else the device root with status 0 if -r is set,
\* else the usage text with the default error status.
C18_Original ==
    UserReturned =>
        IF Met("d") THEN Ops = {"dump"}
        ELSE IF query # "NONE" THEN Ops = {"lookup"}
        ELSE IF root # 0 THEN Ops = {"root"} /\ status = 0
        ELSE Ops = {"usage"} /\ status = -EINVAL

\* C18: udev_user performs at most one operation. A flag that ends the scan
\* decides first: -d dumps when udevdb_open_ro returns 0 and otherwise fails
\* with -EACCES and no operation; -V prints the version and returns 0; -h
\* prints the usage and returns 0; an unrecognised option prints the usage
\* with -EINVAL; an invalid -q TYPE returns -EINVAL with no operation. When
\* the scan reaches the end: with a query kind set the lookup runs if a
\* non-empty path was given and udevdb_open_ro returns 0, and otherwise an
\* error is returned with no operation; else with -r set the device root is
\* printed and 0 returned; else the usage is printed with -EINVAL.
C18_Precedence ==
    UserReturned =>
        IF Met("d")
        THEN IF Returned("udevdb_open_ro", 0)
             THEN Ops = {"dump"}
             ELSE Ops = {} /\ status = -EACCES
        ELSE IF Met("V") THEN Ops = {"version"} /\ status = 0
        ELSE IF Met("h") THEN Ops = {"usage"} /\ status = 0
        ELSE IF Met("?") THEN Ops = {"usage"} /\ status = -EINVAL
        ELSE IF BadTypeMet THEN Ops = {} /\ status = -EINVAL
        ELSE IF query # "NONE"
        THEN IF Len(path) = 0
             THEN Ops = {} /\ status = -EINVAL /\ trace = <<>>
             ELSE IF Returned("udevdb_open_ro", 0)
                  THEN Ops = {"lookup"}
                  ELSE Ops = {} /\ status = -EACCES
        ELSE IF root # 0 THEN Ops = {"root"} /\ status = 0 /\ trace = <<>>
        ELSE Ops = {"usage"} /\ status = -EINVAL /\ trace = <<>>

C18_Witness ==
    /\ UserReturned
    /\ argv = <<s_udev, o_r, o_qname, o_pblock>>
    /\ Ops = {"lookup"}
    /\ status = 0

\* C19: Query mode never calls udevdb_init, udev_add_device,
\* udev_remove_device, namedev_init or sysbus_connect, never installs a
\* signal handler, opens the database only through udevdb_open_ro (the
\* handle is never a read-write one), and leaves the database as it was.
C19_QueryModeReadOnly ==
    /\ [](mode = "user" =>
            /\ \A i \in DOMAIN trace :
                trace[i][1] \in {"udevdb_open_ro", "udevdb_get_dev", "udevdb_dump",
                                 "udevdb_exit"}
            /\ handlers = {}
            /\ dbh \in {"closed", "ro"}
            /\ ~bus)
    /\ [][mode' = "user" => db' = db]_vars

C19_Witness ==
    /\ UserReturned
    /\ Count("udevdb_open_ro") = 1
    /\ Count("udevdb_get_dev") = 1
    /\ db = {s_slash_block}
    /\ dbh = "closed"

====
